---- MODULE Spec2Model ----
(***************************************************************************)
(* A model of TrackViz.py: one call of load_and_plot_gps_track or of       *)
(* plot_with_custom_settings on a CSV file, from the call to its return or *)
(* to the exception that leaves it.                                        *)
(*                                                                         *)
(* Column names are sequences of one-character strings, so that lower(),   *)
(* strip() and the substring tests are computed, not assumed.  Arrays live *)
(* in a heap of buffers and the program's array variables hold buffer ids, *)
(* so that a view of a DataFrame column (df[col].values) and a fresh array *)
(* (np.zeros_like) are different things.  Headings are multiples of 90     *)
(* degrees, for which sin and cos are exact integers; the 1e-16 residue    *)
(* of floating point cos(pi/2) is not modelled.                            *)
(***************************************************************************)
EXTENDS Integers, Sequences, FiniteSets, TLC

(* ------------------------------ bounds --------------------------------- *)

\* Most rows of a table whose cell values are enumerated.
MaxRows == 2
\* Most columns of a table whose header is enumerated.
MaxCols == 3

(* ------------------------------ strings -------------------------------- *)

UpperChars == <<"A", "B", "C", "D", "E", "F", "G", "H", "I", "J", "K", "L", "M", "N", "O", "P", "Q", "R", "S", "T", "U", "V", "W", "X", "Y", "Z">>
LowerChars == <<"a", "b", "c", "d", "e", "f", "g", "h", "i", "j", "k", "l", "m", "n", "o", "p", "q", "r", "s", "t", "u", "v", "w", "x", "y", "z">>
Whitespace == {" ", "\t", "\n", "\r"}

\* The lower-case letter of each upper-case letter.
UpperToLower ==
    [c \in {UpperChars[i] : i \in 1..Len(UpperChars)} |->
        LowerChars[CHOOSE i \in 1..Len(UpperChars) : UpperChars[i] = c]]

\* str.lower() on one character.
LowerChar(c) == IF c \in DOMAIN UpperToLower THEN UpperToLower[c] ELSE c

\* str.lower()
Lower(s) == [i \in 1..Len(s) |-> LowerChar(s[i])]

\* str.strip(): drop leading and trailing whitespace.
Strip(s) ==
    LET keep == {i \in 1..Len(s) : s[i] \notin Whitespace}
    IN  IF keep = {} THEN << >>
        ELSE LET lo == CHOOSE i \in keep : \A j \in keep : i <= j
                 hi == CHOOSE i \in keep : \A j \in keep : j <= i
             IN  SubSeq(s, lo, hi)

\* Python's `pat in s` for strings.
Contains(s, pat) ==
    \E i \in 0..(Len(s) - Len(pat)) : SubSeq(s, i + 1, i + Len(pat)) = pat

\* col.lower().strip()
Normalize(col) == Strip(Lower(col))

Pat_latitude == <<"l", "a", "t", "i", "t", "u", "d", "e">>
Pat_longitude == <<"l", "o", "n", "g", "i", "t", "u", "d", "e">>
Pat_long == <<"l", "o", "n", "g">>
Pat_course == <<"c", "o", "u", "r", "s", "e">>
Pat_lat == <<"l", "a", "t">>
Pat_lon == <<"l", "o", "n">>
Pat_head == <<"h", "e", "a", "d">>

(* ---------------------------- column names ----------------------------- *)

NameLatitudeDeg == <<"L", "a", "t", "i", "t", "u", "d", "e", " ", "(", "d", "e", "g", ")">>
NameLongitudeDeg == <<"L", "o", "n", "g", "i", "t", "u", "d", "e", " ", "(", "d", "e", "g", ")">>
NameCourseOverGround == <<"C", "o", "u", "r", "s", "e", " ", "O", "v", "e", "r", " ", "G", "r", "o", "u", "n", "d">>
NameX == <<"x">>
NameY == <<"y">>
NameZ == <<"z">>
NameLatPadded == <<" ", "L", "A", "T", " ">>
NameHeading == <<"H", "e", "a", "d", "i", "n", "g">>
NameLatLong == <<"l", "a", "t", "_", "l", "o", "n", "g">>
NameCourseLatitude == <<"C", "o", "u", "r", "s", "e", " ", "L", "a", "t", "i", "t", "u", "d", "e">>
NameHeadLon == <<"H", "e", "a", "d", " ", "L", "o", "n">>
NameHeadingCourse == <<"H", "e", "a", "d", "i", "n", "g", " ", "C", "o", "u", "r", "s", "e">>

\* The column names a header is drawn from.
NamePool ==
    { NameLatitudeDeg, NameLongitudeDeg, NameCourseOverGround, NameX, NameY,
      NameZ, NameLatPadded, NameHeading, NameLatLong, NameCourseLatitude,
      NameHeadLon, NameHeadingCourse }

\* Python's None for a column name.  pandas.read_csv never yields an empty
\* column name (an empty header cell becomes "Unnamed: n"), so the empty
\* sequence is free to stand for None.
None == << >>

\* bool(x) of a column-name variable: None and "" are false.
Truthy(x) == x # None

(* --------------------------- column scans ------------------------------ *)

STRICT == "strict"
PERMISSIVE == "permissive"

\* The `if` test of the scan.
LatTest(variant, col_lower) ==
    IF variant = STRICT THEN Contains(col_lower, Pat_latitude)
    ELSE Contains(col_lower, Pat_lat)

\* The first `elif` test of the scan.
LonTest(variant, col_lower) ==
    IF variant = STRICT
    THEN Contains(col_lower, Pat_longitude) \/ Contains(col_lower, Pat_long)
    ELSE Contains(col_lower, Pat_lon) \/ Contains(col_lower, Pat_long)

\* The second `elif` test of the scan.
HeadTest(variant, col_lower) ==
    IF variant = STRICT THEN Contains(col_lower, Pat_course)
    ELSE Contains(col_lower, Pat_head)

\* A different chain: the heading test first, the latitude test last.
ClassifyHeadFirst(variant, col_lower) ==
    IF HeadTest(variant, col_lower) THEN "heading"
    ELSE IF LonTest(variant, col_lower) THEN "lon"
    ELSE IF LatTest(variant, col_lower) THEN "lat"
    ELSE "none"

\* The if / elif / elif chain: the branch a column takes.
Classify(variant, col_lower) ==
    IF LatTest(variant, col_lower) THEN "lat"
    ELSE IF LonTest(variant, col_lower) THEN "lon"
    ELSE IF HeadTest(variant, col_lower) THEN "heading"
    ELSE "none"

\* An assignment that keeps a name already assigned.
AssignKeepFirst(cur, col) == IF cur = None THEN col ELSE cur

\* `lat_col = col` (and its two siblings): the new value of the variable.
Assign(cur, col) == col

\* One iteration of `for col in df.columns`.
ScanStep(variant, m, col) ==
    LET col_lower == Normalize(col)
        cat == Classify(variant, col_lower)
    IN  [ lat_col |-> IF cat = "lat" THEN Assign(m.lat_col, col) ELSE m.lat_col,
          lon_col |-> IF cat = "lon" THEN Assign(m.lon_col, col) ELSE m.lon_col,
          heading_col |-> IF cat = "heading" THEN Assign(m.heading_col, col)
                          ELSE m.heading_col ]

RECURSIVE ScanFrom(_, _, _, _)
\* The loop over columns[k..], from the mapping m.
ScanFrom(variant, columns, k, m) ==
    IF k > Len(columns) THEN m
    ELSE ScanFrom(variant, columns, k + 1, ScanStep(variant, m, columns[k]))

\* The whole scan, from lat_col = lon_col = heading_col = None.
Scan(variant, columns) ==
    ScanFrom(variant, columns, 1,
             [lat_col |-> None, lon_col |-> None, heading_col |-> None])

(* ------------------------------- arrays -------------------------------- *)

\* The heap is a sequence of buffers; a buffer id is an index into it and an
\* array variable of the program holds a buffer id (0: not yet bound).
\* view = heap[id] is what the variable shows.

\* An "array like src" that is src's own buffer (shifted_headings = headings).
ZerosLikeAlias(heap, src) == src

\* np.zeros_like(a): the id of the array it returns, a fresh buffer.
ZerosLikeId(heap, src) == Len(heap) + 1

\* The heap once np.zeros_like(src) has allocated its buffer of zeros.
ZerosLikeHeap(heap, src) == Append(heap, [i \in 1..Len(heap[src]) |-> 0])

\* dst[0:] = src[0:]
WriteAll(heap, dst, src) == [heap EXCEPT ![dst] = heap[src]]

\* A slice assignment that moves nothing.
WriteShiftNothing(heap, dst, src) == heap

\* dst[:-1] = src[1:]   (numpy copies as if src were read first)
WriteShift(heap, dst, src) ==
    [heap EXCEPT ![dst] =
        [i \in 1..Len(heap[dst]) |->
            IF i < Len(heap[dst]) THEN heap[src][i + 1] ELSE heap[dst][i]]]

\* dst[-1] = src[-1], on arrays of length >= 1
WriteLast(heap, dst, src) ==
    [heap EXCEPT ![dst][Len(heap[dst])] = heap[src][Len(heap[src])]]

\* a.min() and a.max() of a non-empty array
ArrayMin(a) == CHOOSE x \in {a[i] : i \in 1..Len(a)} : \A i \in 1..Len(a) : x <= a[i]
ArrayMax(a) == CHOOSE x \in {a[i] : i \in 1..Len(a)} : \A i \in 1..Len(a) : a[i] <= x

(* ---------------------------- trigonometry ----------------------------- *)

\* np.radians on a multiple of 90 degrees, in units of pi/2.
Radians(deg) == IF deg >= 0 THEN deg \div 90 ELSE -((-deg) \div 90)

\* np.sin of q * pi/2
Sin(q) == LET r == ((q % 4) + 4) % 4
          IN  CASE r = 0 -> 0 [] r = 1 -> 1 [] r = 2 -> 0 [] r = 3 -> -1

\* np.cos of q * pi/2
Cos(q) == LET r == ((q % 4) + 4) % 4
          IN  CASE r = 0 -> 1 [] r = 1 -> 0 [] r = 2 -> -1 [] r = 3 -> 0

\* The compass bearing taken as a planar angle without conversion.
HeadingRadUnconverted(h) == Radians(h)

\* np.radians(90 - h): compass bearing to planar angle.
HeadingRad(h) == Radians(90 - h)

\* lats + line_length * np.sin(heading_rad)
EndLats(lats, len, hs) ==
    [i \in 1..Len(lats) |-> lats[i] + len * Sin(HeadingRad(hs[i]))]

\* lons + line_length * np.cos(heading_rad)
EndLons(lons, len, hs) ==
    [i \in 1..Len(lons) |-> lons[i] + len * Cos(HeadingRad(hs[i]))]

\* The heading segments drawn by the loop `for i in range(len(lats))`.
Segments(lats, lons, elats, elons) ==
    [i \in 1..Len(lats) |->
        [lon0 |-> lons[i], lat0 |-> lats[i], lon1 |-> elons[i], lat1 |-> elats[i]]]

(* ----------------------------- histogram ------------------------------- *)

\* bins=36
NBins == 36

\* The range numpy.histogram uses when none is given, doubled to stay in
\* the integers: (0, 1) for an empty array, (min - 0.5, max + 0.5) when all
\* values are equal, (min, max) otherwise.
HistRange2(a) ==
    IF Len(a) = 0 THEN <<0, 2>>
    ELSE IF ArrayMin(a) = ArrayMax(a)
         THEN <<2 * ArrayMin(a) - 1, 2 * ArrayMax(a) + 1>>
         ELSE <<2 * ArrayMin(a), 2 * ArrayMax(a)>>

\* The 0-based bin of x for a doubled range r: NBins equal bins, the last
\* one closed on the right.
BinIndex(x, r) ==
    IF 2 * x = r[2] THEN NBins - 1
    ELSE ((2 * x - r[1]) * NBins) \div (r[2] - r[1])

\* The counts of ax.hist(a, bins=36); counts[k + 1] is bin k.
Hist(a) ==
    LET r == HistRange2(a)
    IN  [k \in 1..NBins |->
            Cardinality({i \in 1..Len(a) :
                            /\ 2 * a[i] >= r[1]
                            /\ 2 * a[i] <= r[2]
                            /\ BinIndex(a[i], r) = k - 1})]

(* ------------------------------- inputs -------------------------------- *)

BASIC == "load_and_plot_gps_track"
CUSTOM == "plot_with_custom_settings"

\* The scan each entry point runs.
Variant(f) == IF f = BASIC THEN STRICT ELSE PERMISSIVE

Coords == {0, 1}
HeadingValues == {0, 90, 180, 270}
\* The values of line_length, in units of the coordinates.
LineLengths == {0, 1, 2}

\* read_csv makes column names unique, so a header is an injective sequence.
Headers ==
    {h \in UNION {[1..k -> NamePool] : k \in 1..MaxCols} :
        \A i, j \in 1..Len(h) : h[i] = h[j] => i = j}

\* Files whose header varies: one row, column j holding 90 * (j - 1).
HeaderFiles ==
    {[loadable |-> TRUE, columns |-> h,
      data |-> [j \in 1..Len(h) |-> <<90 * (j - 1)>>]] : h \in Headers}

DataHeader == <<NameLatitudeDeg, NameLongitudeDeg, NameHeadingCourse>>

\* Files whose cells vary: three columns that both scans resolve, 0..MaxRows
\* rows.
DataFiles ==
    UNION {
        {[loadable |-> TRUE, columns |-> DataHeader, data |-> <<la, lo, hd>>] :
            la \in [1..n -> Coords], lo \in [1..n -> Coords],
            hd \in [1..n -> HeadingValues]} : n \in 0..MaxRows}

\* A path pd.read_csv fails on: no file, no permission, nothing to parse.
BadFile == [loadable |-> FALSE, columns |-> << >>, data |-> << >>]

(* -------------------------------- state -------------------------------- *)

VARIABLES
    fn,                \* the entry point called
    csv_file,          \* the file at the path given
    line_length,       \* the line_length argument
    pc,                \* where the call is
    steps,             \* the steps of the body that have run, in order
    df,                \* the DataFrame: [columns, values (buffer ids)], or NoDf
    heap,              \* the array buffers
    lat_col, lon_col, heading_col,
    lats, lons, headings, shifted_headings,   \* buffer ids, 0 when unbound
    end_lats, end_lons,                       \* fresh arrays, << >> when unbound
    segments,          \* the heading segments drawn
    hist,              \* the histogram counts
    stats,             \* the printed track statistics
    out,               \* the error messages printed
    exc,               \* the exception that left the call
    result             \* the value returned

vars == <<fn, csv_file, line_length, pc, steps, df, heap, lat_col, lon_col,
          heading_col, lats, lons, headings, shifted_headings, end_lats,
          end_lons, segments, hist, stats, out, exc, result>>

NoDf == [columns |-> << >>, values |-> << >>]
NoExc == [type |-> "none", line |-> 0]
NoStats == [lat |-> << >>, lon |-> << >>, heading |-> << >>]

\* The default of the line_length parameter, in the model's unit.
DefaultLineLength == 1

\* The (file, line_length) pairs a call is given: the files whose header
\* varies with the default length, the others with every length.
Calls ==
    (HeaderFiles \X {DefaultLineLength})
        \cup ((DataFiles \cup {BadFile}) \X LineLengths)

Init ==
    /\ fn \in {BASIC, CUSTOM}
    /\ \E c \in Calls : csv_file = c[1] /\ line_length = c[2]
    /\ pc = "call"
    /\ steps = << >>
    /\ df = NoDf
    /\ heap = << >>
    /\ lat_col = None /\ lon_col = None /\ heading_col = None
    /\ lats = 0 /\ lons = 0 /\ headings = 0 /\ shifted_headings = 0
    /\ end_lats = << >> /\ end_lons = << >>
    /\ segments = << >>
    /\ hist = << >>
    /\ stats = NoStats
    /\ out = << >>
    /\ exc = NoExc
    /\ result = "pending"

\* A lookup that falls back to the first column instead of raising.
LookupOrFirst(d, col) ==
    IF \E j \in 1..Len(d.columns) : d.columns[j] = col
    THEN d.values[CHOOSE j \in 1..Len(d.columns) : d.columns[j] = col]
    ELSE 1

\* df[col].values: the buffer id of the column named col, 0 for a KeyError.
Lookup(d, col) ==
    IF \E j \in 1..Len(d.columns) : d.columns[j] = col
    THEN d.values[CHOOSE j \in 1..Len(d.columns) : d.columns[j] = col]
    ELSE 0

\* any([...]) in place of all([...])
AnyResolved(la, lo, hd) == Truthy(la) \/ Truthy(lo) \/ Truthy(hd)

\* all([lat_col, lon_col, heading_col])
AllResolved(la, lo, hd) == Truthy(la) /\ Truthy(lo) /\ Truthy(hd)

(* ------------------------------- actions ------------------------------- *)

\* load_and_plot_gps_track, lines 16-23: read_csv inside try / except.
LoadBasic ==
    /\ fn = BASIC /\ pc = "call"
    /\ steps' = Append(steps, "load")
    /\ IF csv_file.loadable
       THEN /\ df' = [columns |-> csv_file.columns,
                      values |-> [j \in 1..Len(csv_file.columns) |-> j]]
            /\ heap' = csv_file.data
            /\ pc' = "loaded"
            /\ UNCHANGED <<out, result>>
       ELSE /\ out' = Append(out, "Error loading CSV")
            /\ result' = "None"
            /\ pc' = "returned"
            /\ UNCHANGED <<df, heap>>
    /\ UNCHANGED <<fn, csv_file, line_length, lat_col, lon_col, heading_col,
                   lats, lons, headings, shifted_headings, end_lats, end_lons,
                   segments, hist, stats, exc>>

\* plot_with_custom_settings, line 108: read_csv with nothing around it.
LoadCustom ==
    /\ fn = CUSTOM /\ pc = "call"
    /\ steps' = Append(steps, "load")
    /\ IF csv_file.loadable
       THEN /\ df' = [columns |-> csv_file.columns,
                      values |-> [j \in 1..Len(csv_file.columns) |-> j]]
            /\ heap' = csv_file.data
            /\ pc' = "loaded"
            /\ UNCHANGED exc
       ELSE /\ exc' = [type |-> "read_csv", line |-> 108]
            /\ pc' = "raised"
            /\ UNCHANGED <<df, heap>>
    /\ UNCHANGED <<fn, csv_file, line_length, lat_col, lon_col, heading_col,
                   lats, lons, headings, shifted_headings, end_lats, end_lons,
                   segments, hist, stats, out, result>>

\* The loop `for col in df.columns` of either entry point.
ScanColumns ==
    /\ pc = "loaded"
    /\ steps' = Append(steps, "scan")
    /\ LET m == Scan(Variant(fn), df.columns)
       IN  /\ lat_col' = m.lat_col
           /\ lon_col' = m.lon_col
           /\ heading_col' = m.heading_col
    /\ pc' = "scanned"
    /\ UNCHANGED <<fn, csv_file, line_length, df, heap, lats, lons, headings,
                   shifted_headings, end_lats, end_lons, segments, hist, stats,
                   out, exc, result>>

\* load_and_plot_gps_track, lines 39-42: the guard on the three names.
CheckColumns ==
    /\ fn = BASIC /\ pc = "scanned"
    /\ steps' = Append(steps, "check")
    /\ IF ~AllResolved(lat_col, lon_col, heading_col)
       THEN /\ out' = out \o <<"Error: Could not find required columns (latitude, longitude, course)",
                               "Available columns:">>
            /\ result' = "None"
            /\ pc' = "returned"
       ELSE /\ pc' = "checked"
            /\ UNCHANGED <<out, result>>
    /\ UNCHANGED <<fn, csv_file, line_length, df, heap, lat_col, lon_col,
                   heading_col, lats, lons, headings, shifted_headings,
                   end_lats, end_lons, segments, hist, stats, exc>>

\* The three extractions df[...].values, in order; a missing name raises
\* KeyError at its line and the later ones do not run.
Extract ==
    /\ \/ fn = BASIC /\ pc = "checked"
       \/ fn = CUSTOM /\ pc = "scanned"
    /\ steps' = Append(steps, "extract")
    /\ LET first == IF fn = BASIC THEN 45 ELSE 121
           la == Lookup(df, lat_col)
           lo == Lookup(df, lon_col)
           hd == Lookup(df, heading_col)
       IN  IF la = 0
           THEN /\ exc' = [type |-> "KeyError", line |-> first]
                /\ pc' = "raised"
                /\ UNCHANGED <<lats, lons, headings>>
           ELSE IF lo = 0
           THEN /\ exc' = [type |-> "KeyError", line |-> first + 1]
                /\ pc' = "raised"
                /\ lats' = la
                /\ UNCHANGED <<lons, headings>>
           ELSE IF hd = 0
           THEN /\ exc' = [type |-> "KeyError", line |-> first + 2]
                /\ pc' = "raised"
                /\ lats' = la /\ lons' = lo
                /\ UNCHANGED headings
           ELSE /\ lats' = la /\ lons' = lo /\ headings' = hd
                /\ pc' = "extracted"
                /\ UNCHANGED exc
    /\ UNCHANGED <<fn, csv_file, line_length, df, heap, lat_col, lon_col,
                   heading_col, shifted_headings, end_lats, end_lons, segments,
                   hist, stats, out, result>>

\* load_and_plot_gps_track, lines 51-56.  On an empty table the last
\* statement raises IndexError.
ShiftHeadings ==
    /\ fn = BASIC /\ pc = "extracted"
    /\ steps' = Append(steps, "shift")
    /\ LET id == ZerosLikeId(heap, headings)
           h1 == ZerosLikeHeap(heap, headings)
           h2 == WriteAll(h1, id, headings)
           h3 == WriteShift(h2, id, headings)
       IN  /\ shifted_headings' = id
           /\ IF Len(h3[id]) = 0
              THEN /\ heap' = h3
                   /\ exc' = [type |-> "IndexError", line |-> 56]
                   /\ pc' = "raised"
              ELSE /\ heap' = WriteLast(h3, id, headings)
                   /\ pc' = "shifted"
                   /\ UNCHANGED exc
    /\ UNCHANGED <<fn, csv_file, line_length, df, lat_col, lon_col,
                   heading_col, lats, lons, headings, end_lats, end_lons,
                   segments, hist, stats, out, result>>

\* load_and_plot_gps_track, lines 61-65: end points from shifted_headings.
EndpointsBasic ==
    /\ fn = BASIC /\ pc = "shifted"
    /\ steps' = Append(steps, "endpoints")
    /\ end_lats' = EndLats(heap[lats], line_length, heap[shifted_headings])
    /\ end_lons' = EndLons(heap[lons], line_length, heap[shifted_headings])
    /\ pc' = "computed"
    /\ UNCHANGED <<fn, csv_file, line_length, df, heap, lat_col, lon_col,
                   heading_col, lats, lons, headings, shifted_headings,
                   segments, hist, stats, out, exc, result>>

\* plot_with_custom_settings, lines 126-128: end points from headings.
EndpointsCustom ==
    /\ fn = CUSTOM /\ pc = "extracted"
    /\ steps' = Append(steps, "endpoints")
    /\ end_lats' = EndLats(heap[lats], line_length, heap[headings])
    /\ end_lons' = EndLons(heap[lons], line_length, heap[headings])
    /\ pc' = "computed"
    /\ UNCHANGED <<fn, csv_file, line_length, df, heap, lat_col, lon_col,
                   heading_col, lats, lons, headings, shifted_headings,
                   segments, hist, stats, out, exc, result>>

\* load_and_plot_gps_track, lines 68-89: the single panel.
RenderBasic ==
    /\ fn = BASIC /\ pc = "computed"
    /\ steps' = Append(steps, "render")
    /\ segments' = Segments(heap[lats], heap[lons], end_lats, end_lons)
    /\ pc' = "rendered"
    /\ UNCHANGED <<fn, csv_file, line_length, df, heap, lat_col, lon_col,
                   heading_col, lats, lons, headings, shifted_headings,
                   end_lats, end_lons, hist, stats, out, exc, result>>

\* plot_with_custom_settings, lines 131-150: the track panel and the
\* histogram of headings.
RenderCustom ==
    /\ fn = CUSTOM /\ pc = "computed"
    /\ steps' = Append(steps, "render")
    /\ segments' = Segments(heap[lats], heap[lons], end_lats, end_lons)
    /\ hist' = Hist(heap[headings])
    /\ pc' = "rendered"
    /\ UNCHANGED <<fn, csv_file, line_length, df, heap, lat_col, lon_col,
                   heading_col, lats, lons, headings, shifted_headings,
                   end_lats, end_lons, stats, out, exc, result>>

\* load_and_plot_gps_track, lines 92-95: min and max of lats, lons, headings.
PrintStatistics ==
    /\ fn = BASIC /\ pc = "rendered"
    /\ steps' = Append(steps, "statistics")
    /\ stats' = [lat |-> <<ArrayMin(heap[lats]), ArrayMax(heap[lats])>>,
                 lon |-> <<ArrayMin(heap[lons]), ArrayMax(heap[lons])>>,
                 heading |-> <<ArrayMin(heap[headings]), ArrayMax(heap[headings])>>]
    /\ pc' = "reported"
    /\ UNCHANGED <<fn, csv_file, line_length, df, heap, lat_col, lon_col,
                   heading_col, lats, lons, headings, shifted_headings,
                   end_lats, end_lons, segments, hist, out, exc, result>>

\* plt.show() and `return df`.
Return ==
    /\ \/ fn = BASIC /\ pc = "reported"
       \/ fn = CUSTOM /\ pc = "rendered"
    /\ steps' = Append(steps, "return")
    /\ result' = "df"
    /\ pc' = "returned"
    /\ UNCHANGED <<fn, csv_file, line_length, df, heap, lat_col, lon_col,
                   heading_col, lats, lons, headings, shifted_headings,
                   end_lats, end_lons, segments, hist, stats, out, exc>>

Next ==
    \/ LoadBasic
    \/ LoadCustom
    \/ ScanColumns
    \/ CheckColumns
    \/ Extract
    \/ ShiftHeadings
    \/ EndpointsBasic
    \/ EndpointsCustom
    \/ RenderBasic
    \/ RenderCustom
    \/ PrintStatistics
    \/ Return

Spec == Init /\ [][Next]_vars

(* ------------------------------- claims -------------------------------- *)

\* The step named s has run in this call.
Ran(s) == \E i \in 1..Len(steps) : steps[i] = s

\* The column scan of this call has finished.
Scanned == Ran("scan")

\* The index in the table of the column named col.
ColumnIndex(col) == CHOOSE j \in 1..Len(df.columns) : df.columns[j] = col

\* The category the scan of this call puts each column in, by position.
Categories ==
    [j \in 1..Len(df.columns) |->
        Classify(Variant(fn), Normalize(df.columns[j]))]

\* The earliest / latest column in table order that cats puts in cat.
FirstClassified(cats, cat) ==
    LET js == {j \in DOMAIN cats : cats[j] = cat}
    IN  IF js = {} THEN None
        ELSE df.columns[CHOOSE j \in js : \A k \in js : j <= k]
LastClassified(cats, cat) ==
    LET js == {j \in DOMAIN cats : cats[j] = cat}
    IN  IF js = {} THEN None
        ELSE df.columns[CHOOSE j \in js : \A k \in js : k <= j]

\* C1: in load_and_plot_gps_track, once the shift has run without raising,
\* for N >= 1 rows shifted_headings[i] = headings[i+1] for every i below the
\* last row and the last row keeps its own heading.
C1_ShiftedHeadings ==
    (fn = BASIC /\ Ran("shift") /\ pc # "raised") =>
        LET h == heap[headings]
            sh == heap[shifted_headings]
            N == Len(h)
        IN  /\ N >= 1
            /\ Len(sh) = N
            /\ \A i \in 1..(N - 1) : sh[i] = h[i + 1]
            /\ sh[N] = h[N]

\* C1 witness: headings [0, 90] have been shifted to [90, 90].
C1_Witness ==
    /\ fn = BASIC /\ pc = "shifted"
    /\ heap[headings] = <<0, 90>>
    /\ heap[shifted_headings] = <<90, 90>>

C3_AbortBeforeCompute ==
    /\ (fn = BASIC /\ Ran("check")
          /\ (lat_col = None \/ lon_col = None \/ heading_col = None)) =>
            /\ pc = "returned" /\ result = "None" /\ exc = NoExc
            /\ Len(out) > 0
            /\ ~Ran("shift") /\ ~Ran("endpoints") /\ ~Ran("render")
            /\ shifted_headings = 0 /\ end_lats = << >> /\ segments = << >>
    /\ (fn = BASIC /\ Ran("render")) =>
            /\ csv_file.loadable
            /\ lat_col # None /\ lon_col # None /\ heading_col # None
    /\ (fn = BASIC /\ Ran("check") /\ df.columns = <<NameX, NameY, NameZ>>) =>
            pc = "returned" /\ result = "None"
    /\ (fn = BASIC /\ Scanned
          /\ df.columns = <<NameLatitudeDeg, NameLongitudeDeg, NameCourseOverGround>>) =>
            /\ lat_col = NameLatitudeDeg
            /\ lon_col = NameLongitudeDeg
            /\ heading_col = NameCourseOverGround
            /\ (Ran("check") => pc # "returned" \/ result = "df")

\* C3 witness: a table with latitude and longitude but no course column was
\* refused by the guard.
C3_Witness ==
    /\ fn = BASIC /\ pc = "returned" /\ result = "None"
    /\ df.columns = <<NameLatitudeDeg, NameLongitudeDeg, NameHeading>>
    /\ lat_col # None /\ lon_col # None /\ heading_col = None
    /\ Ran("check")

\* C4 as stated: for either entry point, a file that cannot be loaded ends
\* the call with the error reported and a normal return, nothing raised and
\* nothing rendered.
C4_LoadFailureReturns ==
    (~csv_file.loadable /\ Ran("load")) =>
        /\ pc = "returned"
        /\ exc = NoExc
        /\ Len(out) > 0
        /\ ~Ran("render")

\* C5 as stated: in plot_with_custom_settings the end point of row i is
\* computed from the heading of row i+1, and from its own for the last row.
NextRowHeadings(h) ==
    [i \in 1..Len(h) |-> IF i < Len(h) THEN h[i + 1] ELSE h[i]]
C5_CustomUsesNextHeading ==
    (fn = CUSTOM /\ Ran("endpoints")) =>
        /\ end_lats = [i \in 1..Len(heap[lats]) |->
              heap[lats][i]
                + line_length * Sin(Radians(90 - NextRowHeadings(heap[headings])[i]))]
        /\ end_lons = [i \in 1..Len(heap[lons]) |->
              heap[lons][i]
                + line_length * Cos(Radians(90 - NextRowHeadings(heap[headings])[i]))]

\* The headings of a histogram that lie in [0, 360).
InCircle(h) == \A i \in 1..Len(h) : 0 <= h[i] /\ h[i] < 360

\* C6 as stated: the histogram of plot_with_custom_settings counts a heading
\* h of [0, 360) in bucket floor(h / 10) of 36 fixed 10-degree buckets,
\* whatever the smallest and largest heading are.
C6_FixedTenDegreeBuckets ==
    (fn = CUSTOM /\ Ran("render") /\ InCircle(heap[headings])) =>
        /\ Len(hist) = 36
        /\ \A k \in 0..35 :
              hist[k + 1] =
                Cardinality({i \in 1..Len(heap[headings]) :
                                heap[headings][i] \div 10 = k})

\* What ax.hist(headings, bins=36) does instead (the divergence of C6): it
\* counts the raw headings in 36 equal buckets that span the smallest to
\* the largest heading present: with lo < hi the
\* extremes, h < hi falls in bucket floor((h - lo) * 36 / (hi - lo)) and hi
\* in bucket 35; when all headings are equal they all fall in bucket 18 (the
\* range is widened by half a degree each side); an empty table gives 36
\* empty buckets.
HistSpansDataRange ==
    (fn = CUSTOM /\ Ran("render")) =>
        LET h == heap[headings]
            rows == 1..Len(h)
            lo == ArrayMin(h)
            hi == ArrayMax(h)
            bucket(x) == IF lo = hi THEN 18
                         ELSE IF x = hi THEN 35
                         ELSE ((x - lo) * 36) \div (hi - lo)
        IN  /\ Len(hist) = 36
            /\ \A k \in 0..35 :
                  hist[k + 1] =
                    IF rows = {} THEN 0
                    ELSE Cardinality({i \in rows : bucket(h[i]) = k})

\* Headings [0, 90] were counted in the first and the last of the 36
\* buckets, not in buckets 0 and 9.
HistSpansDataRangeWitness ==
    /\ fn = CUSTOM /\ pc = "rendered"
    /\ heap[headings] = <<0, 90>>
    /\ hist[1] = 1 /\ hist[36] = 1 /\ hist[10] = 0

\* The first of lines 121-123 whose column name is None.
FirstUnresolvedLine ==
    IF lat_col = None THEN 121 ELSE IF lon_col = None THEN 122 ELSE 123

\* C7: in plot_with_custom_settings, when the scan leaves a category
\* unresolved, the extraction raises KeyError at the first line that uses a
\* None name; nothing is printed, nothing is returned, and neither the end
\* points nor the rendering run.
C7_CustomLookupError ==
    (fn = CUSTOM /\ Ran("extract")
       /\ (lat_col = None \/ lon_col = None \/ heading_col = None)) =>
        /\ pc = "raised"
        /\ exc = [type |-> "KeyError", line |-> FirstUnresolvedLine]
        /\ out = << >>
        /\ result = "pending"
        /\ ~Ran("endpoints") /\ ~Ran("render")
        /\ end_lats = << >> /\ end_lons = << >>
        /\ segments = << >> /\ hist = << >>

\* C7 witness: latitude resolved, longitude not, and the call raised at the
\* longitude extraction.
C7_Witness ==
    /\ fn = CUSTOM /\ pc = "raised"
    /\ lat_col # None /\ lon_col = None
    /\ exc = [type |-> "KeyError", line |-> 122]
    /\ lats # 0 /\ lons = 0

\* The displacement (dlat, dlon) of line_length along compass bearing b.
Displacement(b, len) ==
    CASE b = 0 -> <<len, 0>>
      [] b = 90 -> <<0, len>>
      [] b = 180 -> <<-len, 0>>
      [] b = 270 -> <<0, -len>>

\* The bearing the entry point uses for each row.
BearingUsed ==
    IF fn = BASIC THEN heap[shifted_headings] ELSE heap[headings]

\* The displacement rule of C8: every end point is the start point moved by
\* line_length along the row's bearing, and by nothing when line_length = 0.
C8_DisplacementRule ==
    Ran("endpoints") =>
        /\ Len(end_lats) = Len(heap[lats]) /\ Len(end_lons) = Len(heap[lons])
        /\ \A i \in 1..Len(heap[lats]) :
              /\ end_lats[i] = heap[lats][i] + Displacement(BearingUsed[i], line_length)[1]
              /\ end_lons[i] = heap[lons][i] + Displacement(BearingUsed[i], line_length)[2]
              /\ line_length = 0 =>
                    end_lats[i] = heap[lats][i] /\ end_lons[i] = heap[lons][i]

\* The table [(lat 0, lon 0, course 0), (lat 1, lon 1, course 90)] has been
\* given to load_and_plot_gps_track with line_length 1, and the end points
\* are computed.
C8_ExampleRun ==
    /\ fn = BASIC /\ Ran("endpoints") /\ line_length = 1
    /\ heap[lats] = <<0, 1>> /\ heap[lons] = <<0, 1>>
    /\ heap[headings] = <<0, 90>>

\* C8 as stated: the displacement rule, and for the example table the ends
\* (lat 1, lon 0) and (lat 1, lon 2).
C8_EndpointsAsStated ==
    /\ C8_DisplacementRule
    /\ C8_ExampleRun => end_lats = <<1, 1>> /\ end_lons = <<0, 2>>

\* C8 amended: the displacement rule, and for the example table the ends
\* (lat 0, lon 1) and (lat 1, lon 2): row 0 is drawn along the bearing of
\* row 1, 90 degrees, so it moves in longitude.
C8_Endpoints ==
    /\ C8_DisplacementRule
    /\ C8_ExampleRun => end_lats = <<0, 1>> /\ end_lons = <<1, 2>>

\* C8 witness: the example run, with the end points the code computes.
C8_Witness ==
    /\ C8_ExampleRun
    /\ heap[shifted_headings] = <<90, 90>>
    /\ end_lats = <<0, 1>> /\ end_lons = <<1, 2>>

\* C9: after either scan, a column whose normalized name passes the latitude
\* test is in no later category, one that passes the longitude test is not
\* the heading column; when all three categories are resolved the three
\* names differ; and when every column that passes the heading test also
\* passes the latitude or the longitude test, the heading stays unresolved.
C9_OneCategoryPerColumn ==
    Scanned =>
        LET v == Variant(fn)
            cols == 1..Len(df.columns)
            norm == [j \in cols |-> Normalize(df.columns[j])]
        IN  /\ \A j \in cols :
                  /\ LatTest(v, norm[j]) =>
                        lon_col # df.columns[j] /\ heading_col # df.columns[j]
                  /\ heading_col = df.columns[j] => ~LonTest(v, norm[j])
            /\ (lat_col # None /\ lon_col # None /\ heading_col # None) =>
                  lat_col # lon_col /\ lat_col # heading_col /\ lon_col # heading_col
            /\ (\A j \in cols :
                    HeadTest(v, norm[j]) =>
                        LatTest(v, norm[j]) \/ LonTest(v, norm[j])) =>
                  heading_col = None

\* C9 witness: "Head Lon" passes the longitude and the heading test of the
\* permissive scan; it became the longitude column and the heading stayed
\* unresolved.
C9_Witness ==
    /\ fn = CUSTOM /\ pc = "scanned"
    /\ df.columns = <<NameLatPadded, NameHeadLon>>
    /\ lat_col = NameLatPadded /\ lon_col = NameHeadLon /\ heading_col = None

\* C10: in load_and_plot_gps_track the table stays as loaded: at every point
\* after the load each column of df holds the values of the file, the
\* shifted headings are in an array that is no column of df, and the heading
\* statistics are the extremes of the file's heading column.
C10_TableUnchanged ==
    (fn = BASIC /\ csv_file.loadable /\ Ran("load")) =>
        /\ df.columns = csv_file.columns
        /\ \A j \in 1..Len(df.columns) : heap[df.values[j]] = csv_file.data[j]
        /\ Ran("shift") =>
              \A j \in 1..Len(df.columns) : df.values[j] # shifted_headings
        /\ Ran("statistics") =>
              stats.heading =
                <<ArrayMin(csv_file.data[ColumnIndex(heading_col)]),
                  ArrayMax(csv_file.data[ColumnIndex(heading_col)])>>
        /\ pc = "returned" /\ Ran("return") => result = "df"

\* C10 witness: the call returned the table with headings [0, 90] while the
\* derived array holds [90, 90].
C10_Witness ==
    /\ fn = BASIC /\ pc = "returned" /\ result = "df"
    /\ heap[df.values[ColumnIndex(heading_col)]] = <<0, 90>>
    /\ heap[shifted_headings] = <<90, 90>>
    /\ stats.heading = <<0, 90>>

====
